---------------------------- MODULE Spec2Model ----------------------------
(***************************************************************************)
(* Swap-limit computation of the wallet (src/src/composables/              *)
(* useSwapLimits.ts): the recompute pass of the effect watcher, the        *)
(* handlers that re-run it, and the quota arithmetic; and the             *)
(* synchronisation of the account and address stores with the hub         *)
(* (src/unnamed/part_000): syncFromHub and onboard.                        *)
(*                                                                         *)
(* Representation.  Fiat amounts are JavaScript numbers in whole units     *)
(* (usd = cents / 100); the model holds them exactly, in hundredths, so    *)
(* usd = 5000 stands for 50.00.  A JavaScript number that can be           *)
(* non-finite is a record [kind, val] with kind "fin", "inf" or "nan".     *)
(* Timestamps are in hours; a missing timestamp, fiat value or exchange    *)
(* rate is 0: the code only ever tests them for truthiness (x || y,        *)
(* x ? a : b, x && y), which does not tell undefined from 0.               *)
(***************************************************************************)
EXTENDS Integers, Sequences, FiniteSets, TLC

---------------------------------------------------------------------------
(* Bounds of the model *)

\* passes the watcher may start in one behaviour (the first one included)
MaxPass == 2
\* transactions in the two stores together, when the stores are drawn freely
MaxTxs == 2

---------------------------------------------------------------------------
(* JavaScript numbers *)

Undef == "undefined"
Undefined == [undefined |-> TRUE]

Fin(n) == [kind |-> "fin", val |-> n]
Infinity == [kind |-> "inf", val |-> 0]
NaN == [kind |-> "nan", val |-> 0]

\* a <= b for numbers that are not NaN
NumLeq(a, b) == \/ b.kind = "inf"
                \/ a.kind = "fin" /\ b.kind = "fin" /\ a.val <= b.val

\* Math.min and Math.max of two numbers that are not NaN
MathMin(a, b) == IF NumLeq(a, b) THEN a ELSE b
MathMax(a, b) == IF NumLeq(a, b) THEN b ELSE a

\* x >= 0 as JavaScript evaluates it (false for NaN)
GE0(x) == x.kind = "inf" \/ (x.kind = "fin" /\ x.val >= 0)

---------------------------------------------------------------------------
(* Addresses, the remote quota service *)

NimPlaceholder == "NQ07 0000 0000 0000 0000 0000 0000 0000 0000"
BtcBurnAddress == "1111111111111111111114oLvT2"

NimAddresses == {"NQ1"}
BtcAddresses == {"B1"}
Uids == {"u1"}

\* quota figures in reference-fiat minor units (cents)
QA == [monthly |-> 20000, current |-> 5000, monthlyRemaining |-> 15000]
QFull == [monthly |-> 20000, current |-> 20000, monthlyRemaining |-> 20000]
QLow == [monthly |-> 10000, current |-> 2500, monthlyRemaining |-> 7500]
QZero == [monthly |-> 0, current |-> 0, monthlyRemaining |-> 0]

\* what the quota service answers, per account and per address
Servers ==
  { [user |-> QA,
     nim |-> [a \in NimAddresses \cup {NimPlaceholder} |-> QA],
     btc |-> [a \in BtcAddresses \cup {BtcBurnAddress} |-> QFull]],
    [user |-> QLow,
     nim |-> [a \in NimAddresses \cup {NimPlaceholder} |->
                IF a = NimPlaceholder THEN QFull ELSE QA],
     btc |-> [a \in BtcAddresses \cup {BtcBurnAddress} |->
                IF a = BtcBurnAddress THEN QLow ELSE QFull]],
    [user |-> QA,
     nim |-> [a \in NimAddresses \cup {NimPlaceholder} |->
                IF a = NimPlaceholder THEN QFull ELSE QZero],
     btc |-> [a \in BtcAddresses \cup {BtcBurnAddress} |-> QA]] }

\* the quota in the ledger's own units that goes with a reference quota
NativeMonthly(asset, q) ==
  IF asset = "NIM" THEN (q.monthly * 7) \div 2
                   ELSE (q.monthly * 5) \div 2

---------------------------------------------------------------------------
(* Time *)

Now == 1000
ThreeDays == 72
ThirtyDays == 720
BufferHours == 3

threeDaysAgo == Now - ThreeDays
cutOffTimestamp == (Now - ThirtyDays) - BufferHours

---------------------------------------------------------------------------
(* Transactions and the swap index *)

HTLC_ADDRESS_LENGTH == 62
LunaPerNim == 100000
NewUserCeiling == 10000

accountAddresses == {"NQ1", "NQ2"}
activeAddresses == {"B1", "B2"}

NimTx(h, s, r, v, ts, fv) ==
  [transactionHash |-> h, sender |-> s, recipient |-> r,
   value |-> v, timestamp |-> ts, fiatValue |-> fv]

Output(a, l, v, fv) ==
  [address |-> a, addressLength |-> l, value |-> v, fiatValue |-> fv]

BtcTx(h, as, outs, ts) ==
  [transactionHash |-> h, addresses |-> as, outputs |-> outs, timestamp |-> ts]

\* n3 lies on the cut-off and n6 just before it; n4 is confirmed without a
\* stored fiat value; n1 and n8 belong to one swap; n2 is pending
NimUniverse ==
  { NimTx("n1", "HTLC1", "NQ1", 900 * LunaPerNim, Now - 3, 4500),
    NimTx("n2", "HTLC2", "NQ1", 1000 * LunaPerNim, 0, 0),
    NimTx("n3", "NQ1", "HTLC3", 700 * LunaPerNim, cutOffTimestamp, 3000),
    NimTx("n4", "HTLC4", "NQ2", 2000 * LunaPerNim, Now - 96, 0),
    NimTx("n5", "NQX", "NQY", 900 * LunaPerNim, Now - 3, 4500),
    NimTx("n6", "NQ1", "HTLC6", 1200 * LunaPerNim, cutOffTimestamp - 1, 5000),
    NimTx("n7", "NQX", "NQ1", 300 * LunaPerNim, Now - 5, 1000),
    NimTx("n8", "HTLC1", "NQ2", 5000 * LunaPerNim, Now - 2, 25000) }

\* b9 pays an HTLC besides the change; b10 (confirmed) and b11 (pending)
\* have two outputs and none to an HTLC
BtcUniverse ==
  { BtcTx("b3", {"B1"},
          <<Output("B1", 34, 100000, 3100)>>, Now - 239),
    BtcTx("b8", {"B2"},
          <<Output("B2", 34, 150000, 4400)>>, Now - 2),
    BtcTx("b9", {"B1", "HTLC9"},
          <<Output("B1", 34, 20000, 0),
            Output("HTLC9", HTLC_ADDRESS_LENGTH, 100000, 0)>>, 0),
    BtcTx("b10", {"B1", "BX"},
          <<Output("B1", 34, 20000, 600),
            Output("BX", 34, 50000, 1500)>>, Now - 1),
    BtcTx("b11", {"B2", "BY"},
          <<Output("B2", 34, 30000, 0),
            Output("BY", 34, 60000, 0)>>, 0) }

\* swapByTransaction of the swaps store: transaction hash -> swap hash
swapByTransaction ==
  [h \in {"n1", "n2", "n3", "n4", "n5", "n6", "n7", "n8",
           "b3", "b8", "b9", "b10", "b11"} |->
     CASE h = "n1" -> "s1"
       [] h = "n8" -> "s1"
       [] h = "n2" -> "s2"
       [] h = "n3" -> "s3"
       [] h = "b3" -> "s3"
       [] h = "n4" -> "s4"
       [] h = "n5" -> "s5"
       [] h = "n6" -> "s6"
       [] h = "b8" -> "s8"
       [] h = "b9" -> "s9"
       [] h = "b10" -> "s10"
       [] h = "b11" -> "s11"
       [] OTHER -> Undef]

\* the swaps of the swaps store: swap hash -> its "in" leg
swapIn ==
  [s \in {"s1", "s2", "s3", "s4", "s5", "s6", "s8", "s9", "s10", "s11"} |->
     CASE s = "s1" -> [asset |-> "EUR", amount |-> 4000]
       [] s = "s2" -> [asset |-> "EUR", amount |-> 7000]
       [] s = "s4" -> [asset |-> "EUR", amount |-> 9000]
       [] s = "s5" -> [asset |-> "EUR", amount |-> 4000]
       [] s = "s8" -> [asset |-> "EUR", amount |-> 4000]
       [] s = "s3" -> [asset |-> "NIM", amount |-> 700 * LunaPerNim]
       [] s = "s6" -> [asset |-> "NIM", amount |-> 1200 * LunaPerNim]
       [] OTHER -> [asset |-> "BTC", amount |-> 100000]]

\* getSwapByTransactionHash(hash)?.in, Undefined when the hash has no swap
getSwapByTransactionHash(h) ==
  IF swapByTransaction[h] = Undef
    THEN [asset |-> Undef, amount |-> 0]
    ELSE swapIn[swapByTransaction[h]]

\* exchangeRates[crypto][USD], in cents per whole coin; 0 when not loaded
RateTables == { [nim |-> 3, btc |-> 3000000],
                [nim |-> 4, btc |-> 4000000],
                [nim |-> 0, btc |-> 0] }

RECURSIVE SumOver(_, _)
SumOver(g, S) ==
  IF S = {} THEN 0
  ELSE LET x == CHOOSE y \in S : TRUE
       IN g[x] + SumOver(g, S \ {x})

---------------------------------------------------------------------------
(* State *)

VARIABLES
  uid,              \* useAccountStore().activeAccountInfo.value?.uid
  activeCurrency,   \* useAccountStore().activeCurrency
  activeAddress,    \* useAddressStore().activeAddress
  exchangeRates,    \* useFiatStore().exchangeRates
  transactions,     \* useTransactionsStore().state.transactions
  btcTransactions,  \* useBtcTransactionsStore().state.transactions
  server,           \* the answers of the remote quota service
  limits,           \* ref limits
  nimAddress,       \* ref nimAddress
  btcAddress,       \* ref btcAddress
  isFiatToCrypto,   \* ref isFiatToCrypto
  trigger,          \* ref trigger
  passes,           \* the runs of the effect watcher, by start order
  started,          \* how many runs have started
  pub,              \* the run that assigned limits last, with what it read
  accountInfos,     \* useAccountStore().state.accountInfos
  addressInfos,     \* useAddressStore().state.addressInfos, by address
  hub               \* the call of syncFromHub() or onboard() under way

vars == <<uid, activeCurrency, activeAddress, exchangeRates, transactions,
          btcTransactions, server, limits, nimAddress, btcAddress,
          isFiatToCrypto, trigger, passes, started, pub,
          accountInfos, addressInfos, hub>>

inputs == <<uid, activeCurrency, activeAddress, exchangeRates, nimAddress,
            btcAddress, isFiatToCrypto, trigger>>
\* what the watcher and the handlers of useSwapLimits.ts never write
stores == <<transactions, btcTransactions, server,
            accountInfos, addressInfos, hub>>
\* what the hub synchronisation never writes
swapLimitsState == <<inputs, transactions, btcTransactions, server,
                     limits, passes, started, pub>>

PassIds == 1..MaxPass

\* the locals of a run of the watcher; pc is where it is suspended
Blank == [pc |-> "none", uid |-> Undef, nimFetch |-> Undef, btcFetch |-> Undef,
          newUserLimitEur |-> Infinity, swappedAmount |-> 0,
          swapNimTxs |-> {}, swapBtcTxs |-> {}]

NoPub == [id |-> 0, pass |-> Blank, nimAddress |-> Undef, btcAddress |-> Undef]

---------------------------------------------------------------------------
(* The remote quota service *)

\* getUserLimits(uid), skipped (undefined) without a uid
getUserLimits(u) == IF u = Undef THEN Undefined ELSE server.user

\* getLimits(asset, address)
getLimits(asset, address) ==
  LET q == IF asset = "NIM" THEN server.nim[address] ELSE server.btc[address]
  IN [monthly |-> NativeMonthly(asset, q), reference |-> q]

---------------------------------------------------------------------------
(* New-user EUR window, lines 54-111 *)

\* a TimedSwap: the "in" leg of the swap with the transaction's timestamp
\* (tx tells apart the entries of two transactions, as array slots do)
TimedSwap(tx) ==
  [tx |-> tx.transactionHash,
   asset |-> getSwapByTransactionHash(tx.transactionHash).asset,
   amount |-> getSwapByTransactionHash(tx.transactionHash).amount,
   timestamp |-> tx.timestamp]

nimSwaps ==
  { TimedSwap(tx) : tx \in
      { t \in transactions :
          /\ t.recipient \in accountAddresses
          /\ getSwapByTransactionHash(t.transactionHash).asset = "EUR" } }

\* as btcSwaps, the BTC ledger left out
btcSwapsSkipped == {}

btcSwaps ==
  { TimedSwap(tx) : tx \in
      { t \in btcTransactions :
          /\ \E i \in DOMAIN t.outputs : t.outputs[i].address \in activeAddresses
          /\ getSwapByTransactionHash(t.transactionHash).asset = "EUR" } }

\* timestamp || Infinity
TimestampOrInfinity(ts) == IF ts # 0 THEN Fin(ts) ELSE Infinity

\* as FirstSwap, a missing timestamp sorting first
FirstSwapPendingFirst(swaps) ==
  CHOOSE s \in swaps : \A t \in swaps : s.timestamp <= t.timestamp

\* swaps[0] after the chronological sort
FirstSwap(swaps) ==
  CHOOSE s \in swaps : \A t \in swaps :
    NumLeq(TimestampOrInfinity(s.timestamp), TimestampOrInfinity(t.timestamp))

swapVolume(swaps) == SumOver([s \in swaps |-> s.amount], swaps)

IsNotNewUser(swaps) ==
  /\ swaps # {}
  /\ FirstSwap(swaps).timestamp # 0
  /\ FirstSwap(swaps).timestamp < threeDaysAgo

newUserLimitEur ==
  IF ~isFiatToCrypto THEN Infinity
  ELSE LET swaps == nimSwaps \cup btcSwaps
       IN IF IsNotNewUser(swaps) THEN Infinity
          ELSE MathMax(Fin(0), Fin(NewUserCeiling - swapVolume(swaps)))

---------------------------------------------------------------------------
(* Swapped volume of the last 30 days, lines 113-178 *)

\* as BeforeCutOff, a transaction on the cut-off taken as before it
BeforeCutOffInclusive(tx) ==
  ~NumLeq(Fin(cutOffTimestamp + 1), TimestampOrInfinity(tx.timestamp))

BeforeCutOff(tx) ==
  ~NumLeq(Fin(cutOffTimestamp), TimestampOrInfinity(tx.timestamp))

swapNimTxs ==
  { tx \in transactions :
      /\ ~BeforeCutOff(tx)
      /\ (tx.sender \in accountAddresses \/ tx.recipient \in accountAddresses)
      /\ swapByTransaction[tx.transactionHash] # Undef }

nimSwapHashes == { swapByTransaction[tx.transactionHash] : tx \in swapNimTxs }

\* as IsCountedBtcSwap, without the look-up in nimSwapHashes
IsCountedBtcSwapNoDedup(swapHash) == swapHash # Undef

IsCountedBtcSwap(swapHash) == swapHash # Undef /\ swapHash \notin nimSwapHashes

swapBtcTxs ==
  { tx \in btcTransactions :
      /\ ~BeforeCutOff(tx)
      /\ tx.addresses \cap activeAddresses # {}
      /\ IsCountedBtcSwap(swapByTransaction[tx.transactionHash]) }

NimUsdValue(tx) ==
  IF tx.timestamp # 0 THEN tx.fiatValue
  ELSE exchangeRates.nim * (tx.value \div LunaPerNim)

\* whether the output selection of lines 169-171 yields an output
HasSwapOutput(tx) ==
  \/ Len(tx.outputs) = 1
  \/ \E i \in DOMAIN tx.outputs : tx.outputs[i].addressLength = HTLC_ADDRESS_LENGTH

\* as SwapOutput, the first output taken whatever its address
SwapOutputFirst(tx) == tx.outputs[1]

SwapOutput(tx) ==
  IF Len(tx.outputs) = 1 THEN tx.outputs[1]
  ELSE LET i == CHOOSE k \in DOMAIN tx.outputs :
                  /\ tx.outputs[k].addressLength = HTLC_ADDRESS_LENGTH
                  /\ \A j \in 1..(k - 1) :
                        tx.outputs[j].addressLength # HTLC_ADDRESS_LENGTH
       IN tx.outputs[i]

BtcUsdValue(tx) ==
  IF tx.timestamp # 0 THEN SwapOutput(tx).fiatValue
  \* rate * (value / 1e8); rates and values are multiples of 1000 here, so
  \* dividing first is exact and the product stays a machine integer
  ELSE ((exchangeRates.btc \div 1000) * (SwapOutput(tx).value \div 1000)) \div 100

swappedAmount ==
  SumOver([tx \in swapNimTxs |-> NimUsdValue(tx)], swapNimTxs)
  + SumOver([tx \in swapBtcTxs |-> BtcUsdValue(tx)], swapBtcTxs)

---------------------------------------------------------------------------
(* Quota arithmetic, lines 180-220; p holds the locals of the run *)

userLimits(p) == getUserLimits(p.uid)
nimAddressLimits(p) == getLimits("NIM", p.nimFetch)
btcAddressLimits(p) == getLimits("BTC", p.btcFetch)

\* (reference.monthly / 100) / monthly: a fraction num/den, Infinity or NaN
Rate(l) ==
  IF l.monthly = 0
    THEN (IF l.reference.monthly = 0
            THEN [kind |-> "nan", num |-> 0, den |-> 0]
            ELSE [kind |-> "inf", num |-> 0, den |-> 0])
    ELSE [kind |-> "fin", num |-> l.reference.monthly, den |-> l.monthly]

lunaRate(p) == Rate(nimAddressLimits(p))
satRate(p) == Rate(btcAddressLimits(p))

\* Math.floor(usd / rate), usd finite and >= 0
FloorDiv(usd, rate) ==
  CASE rate.kind = "nan" -> NaN
    [] rate.kind = "inf" -> Fin(0)
    [] rate.kind = "fin" /\ rate.num = 0 -> (IF usd.val = 0 THEN NaN ELSE Infinity)
    [] OTHER -> Fin((usd.val * rate.den) \div rate.num)

monthlyUsdLimit(p) ==
  IF userLimits(p) # Undefined
    THEN Fin(userLimits(p).monthly)
    ELSE Fin(nimAddressLimits(p).reference.monthly)

\* Math.min of the four terms
Min4(a, b, c, d) == MathMin(MathMin(a, b), MathMin(c, d))

\* as currentUsdLimit, without the floor of Math.max(0, ...)
currentUsdLimitUnclamped(p) ==
  Min4(
    IF userLimits(p) # Undefined THEN Fin(userLimits(p).current) ELSE Infinity,
    Fin(nimAddressLimits(p).reference.monthly - p.swappedAmount),
    IF nimAddress # Undef
      THEN Fin(nimAddressLimits(p).reference.current) ELSE Infinity,
    IF btcAddress # Undef
      THEN Fin(btcAddressLimits(p).reference.current) ELSE Infinity)

currentUsdLimit(p) ==
  MathMax(Fin(0), Min4(
    IF userLimits(p) # Undefined THEN Fin(userLimits(p).current) ELSE Infinity,
    Fin(nimAddressLimits(p).reference.monthly - p.swappedAmount),
    IF nimAddress # Undef
      THEN Fin(nimAddressLimits(p).reference.current) ELSE Infinity,
    IF btcAddress # Undef
      THEN Fin(btcAddressLimits(p).reference.current) ELSE Infinity))

\* as remainingUsdLimits, the account quota's term left out
remainingUsdLimitsNoUser(p) ==
  MathMax(Fin(0), Min4(
    Infinity,
    Fin(nimAddressLimits(p).reference.monthly - p.swappedAmount),
    IF nimAddress # Undef
      THEN Fin(nimAddressLimits(p).reference.monthlyRemaining) ELSE Infinity,
    IF btcAddress # Undef
      THEN Fin(btcAddressLimits(p).reference.monthlyRemaining) ELSE Infinity))

remainingUsdLimits(p) ==
  MathMax(Fin(0), Min4(
    IF userLimits(p) # Undefined
      THEN Fin(userLimits(p).monthlyRemaining) ELSE Infinity,
    Fin(nimAddressLimits(p).reference.monthly - p.swappedAmount),
    IF nimAddress # Undef
      THEN Fin(nimAddressLimits(p).reference.monthlyRemaining) ELSE Infinity,
    IF btcAddress # Undef
      THEN Fin(btcAddressLimits(p).reference.monthlyRemaining) ELSE Infinity))

\* the SwapLimits object assigned to limits.value
SwapLimits(p) ==
  [current |-> [usd |-> currentUsdLimit(p),
                luna |-> FloorDiv(currentUsdLimit(p), lunaRate(p)),
                sat |-> FloorDiv(currentUsdLimit(p), satRate(p)),
                eur |-> p.newUserLimitEur],
   monthly |-> [usd |-> monthlyUsdLimit(p),
                luna |-> FloorDiv(monthlyUsdLimit(p), lunaRate(p)),
                sat |-> FloorDiv(monthlyUsdLimit(p), satRate(p))],
   remaining |-> [usd |-> remainingUsdLimits(p),
                  luna |-> FloorDiv(remainingUsdLimits(p), lunaRate(p)),
                  sat |-> FloorDiv(remainingUsdLimits(p), satRate(p))]]

---------------------------------------------------------------------------
(* The effect watcher, lines 31-223 *)

\* as StartPass, a new run cancelling the runs in flight
StartPassAborting ==
  /\ started < MaxPass
  /\ started' = started + 1
  /\ passes' = [i \in PassIds |->
        IF i = started + 1
          THEN [Blank EXCEPT
                  !.pc = "fiat",
                  !.uid = uid',
                  !.nimFetch = IF nimAddress' # Undef THEN nimAddress'
                                                     ELSE NimPlaceholder,
                  !.btcFetch = IF btcAddress' # Undef THEN btcAddress'
                                                     ELSE BtcBurnAddress]
          ELSE IF passes[i].pc \in {"fiat", "quota"}
                 THEN [Blank EXCEPT !.pc = "failed"]
                 ELSE passes[i]]

\* Lines 33-49: the synchronous start of a run.  It reads trigger, the uid
\* and the two address refs (the watcher's dependencies), issues the three
\* quota fetches and suspends in calculateFiatAmounts.  A handler that
\* changes a dependency re-runs the watcher, so the start is part of the
\* handler's action and reads the values the handler leaves (primed).
StartPass ==
  /\ started < MaxPass
  /\ started' = started + 1
  /\ passes' = [passes EXCEPT ![started + 1] =
        [Blank EXCEPT
           !.pc = "fiat",
           !.uid = uid',
           !.nimFetch = IF nimAddress' # Undef THEN nimAddress' ELSE NimPlaceholder,
           !.btcFetch = IF btcAddress' # Undef THEN btcAddress' ELSE BtcBurnAddress]]

\* Lines 48-178: both calculateFiatAmounts calls have resolved; the run reads
\* isFiatToCrypto, the stores, the swap index and the exchange rates, and
\* suspends on the quota fetches.  An accounted BTC transaction without a
\* selectable output makes line 174/176 throw: the run ends there.
FiatAmountsDone(i) ==
  /\ passes[i].pc = "fiat"
  /\ passes' = [passes EXCEPT ![i] =
        IF \A tx \in swapBtcTxs : HasSwapOutput(tx)
          THEN [@ EXCEPT !.pc = "quota",
                         !.newUserLimitEur = newUserLimitEur,
                         !.swappedAmount = swappedAmount,
                         !.swapNimTxs = { tx.transactionHash : tx \in swapNimTxs },
                         !.swapBtcTxs = { tx.transactionHash : tx \in swapBtcTxs }]
          ELSE [Blank EXCEPT !.pc = "failed"]]
  /\ UNCHANGED <<inputs, stores, limits, started, pub>>

\* Lines 180-220: the three fetches have resolved; the run reads the two
\* address refs again and assigns the snapshot.
QuotasResolved(i) ==
  /\ passes[i].pc = "quota"
  /\ limits' = SwapLimits(passes[i])
  /\ pub' = [id |-> i, pass |-> passes[i],
             nimAddress |-> nimAddress, btcAddress |-> btcAddress]
  /\ passes' = [passes EXCEPT ![i] = [Blank EXCEPT !.pc = "published"]]
  /\ UNCHANGED <<inputs, stores, started>>

\* as FetchFails, the failing run writing a fallback: limits reset
FetchFailsResetting(i) ==
  /\ passes[i].pc = "quota"
  /\ passes' = [passes EXCEPT ![i] = [Blank EXCEPT !.pc = "failed"]]
  /\ limits' = Undefined
  /\ UNCHANGED <<inputs, stores, started, pub>>

\* Lines 180-182: one of the awaited fetches rejects; the run throws.
FetchFails(i) ==
  /\ passes[i].pc = "quota"
  /\ passes' = [passes EXCEPT ![i] = [Blank EXCEPT !.pc = "failed"]]
  /\ UNCHANGED <<inputs, stores, limits, started, pub>>

---------------------------------------------------------------------------
(* Handlers *)

\* Lines 243-259: useSwapLimits(options)
useSwapLimits(n, b, f) ==
  /\ nimAddress' = n
  /\ btcAddress' = b
  /\ isFiatToCrypto' = f
  /\ trigger' = trigger + 1
  /\ UNCHANGED <<uid, activeCurrency, activeAddress, exchangeRates>>
  /\ StartPass
  /\ UNCHANGED <<stores, limits, pub>>

\* as recalculate, putting the options back to their initial values
recalculateResetting ==
  /\ trigger' = trigger + 1
  /\ nimAddress' = Undef
  /\ btcAddress' = Undef
  /\ isFiatToCrypto' = FALSE
  /\ UNCHANGED <<uid, activeCurrency, activeAddress, exchangeRates>>
  /\ StartPass
  /\ UNCHANGED <<stores, limits, pub>>

\* Lines 225-227: recalculate(), as the callers of useSwapLimits get it
recalculate ==
  /\ trigger' = trigger + 1
  /\ UNCHANGED <<uid, activeCurrency, activeAddress, exchangeRates,
                 nimAddress, btcAddress, isFiatToCrypto>>
  /\ StartPass
  /\ UNCHANGED <<stores, limits, pub>>

\* Lines 229-236: the active currency or address changes.  The main watcher
\* re-runs only if nimAddress changes with it.
ActiveChanged(c, a) ==
  /\ <<c, a>> # <<activeCurrency, activeAddress>>
  /\ activeCurrency' = c
  /\ activeAddress' = a
  /\ nimAddress' = IF c = "nim" THEN a ELSE Undef
  /\ UNCHANGED <<uid, exchangeRates, btcAddress, isFiatToCrypto, trigger>>
  /\ IF nimAddress' # nimAddress
       THEN StartPass
       ELSE UNCHANGED <<passes, started>>
  /\ UNCHANGED <<stores, limits, pub>>

\* as ExchangeRatesChanged, recalculate() called whether or not a snapshot
\* exists
ExchangeRatesChangedUnguarded(r) ==
  /\ r # exchangeRates
  /\ exchangeRates' = r
  /\ UNCHANGED <<uid, activeCurrency, activeAddress, nimAddress, btcAddress,
                 isFiatToCrypto>>
  /\ trigger' = trigger + 1
  /\ StartPass
  /\ UNCHANGED <<stores, limits, pub>>

\* Lines 238-241: the exchange rates change; recalculate() only once a
\* snapshot exists.
ExchangeRatesChanged(r) ==
  /\ r # exchangeRates
  /\ exchangeRates' = r
  /\ UNCHANGED <<uid, activeCurrency, activeAddress, nimAddress, btcAddress,
                 isFiatToCrypto>>
  /\ IF limits # Undefined
       THEN trigger' = trigger + 1 /\ StartPass
       ELSE UNCHANGED <<trigger, passes, started>>
  /\ UNCHANGED <<stores, limits, pub>>

\* Line 35: the active account's uid is a dependency of the watcher.
AccountChanged(u) ==
  /\ u # uid
  /\ uid' = u
  /\ UNCHANGED <<activeCurrency, activeAddress, exchangeRates, nimAddress,
                 btcAddress, isFiatToCrypto, trigger>>
  /\ StartPass
  /\ UNCHANGED <<stores, limits, pub>>

---------------------------------------------------------------------------
(* Synchronisation with the hub, part_000 *)

NullBalance == [kind |-> "null", val |-> 0]

\* Account of @nimiq/hub-api, as hubApi.list() and hubApi.onboard() give it
HubAccount(id, type, label, fe, we, addrs, ctrs) ==
  [accountId |-> id, type |-> type, label |-> label, fileExported |-> fe,
   wordsExported |-> we, addresses |-> addrs, contracts |-> ctrs]

HubAccounts ==
  { HubAccount("a1", "BIP39", "Main", TRUE, FALSE,
               << [address |-> "NQ1", label |-> "Standard"],
                  [address |-> "NQ2", label |-> "Savings"] >>,
               << >>),
    HubAccount("a2", "LEDGER", "Ledger", FALSE, FALSE,
               << [address |-> "NQ3", label |-> "Ledger 1"] >>,
               << [address |-> "NQC", type |-> "VESTING", label |-> "Vesting"] >>) }

HubAccountOf(id) == CHOOSE a \in HubAccounts : a.accountId = id

\* the account lists the hub answers with
HubLists ==
  { << >>,
    << HubAccountOf("a1") >>,
    << HubAccountOf("a2") >>,
    << HubAccountOf("a1"), HubAccountOf("a2") >> }

HubErrors == {"MIGRATION_REQUIRED", "ACCOUNTS_LOST", "REQUEST_FAILED"}

NoInfos == [a \in {} |-> NullBalance]

\* the concatenation of a sequence of sequences
RECURSIVE Flattened(_)
Flattened(ss) == IF ss = << >> THEN << >> ELSE Head(ss) \o Flattened(Tail(ss))

\* lines 20-27: the AddressInfo of an address, its balance kept if stored
BasicAddressInfo(address, stored) ==
  [address |-> address.address,
   type |-> "BASIC",
   label |-> address.label,
   balance |-> IF address.address \in DOMAIN stored
                 THEN stored[address.address].balance
                 ELSE NullBalance]

\* lines 33-36: the AddressInfo of a contract
ContractAddressInfo(contract) ==
  [address |-> contract.address,
   type |-> contract.type,
   label |-> contract.label,
   balance |-> NullBalance]

\* lines 15-37: what one account pushes to addresses and to addressInfos
AccountAddresses(account) ==
  [k \in DOMAIN account.addresses |-> account.addresses[k].address]
    \o [k \in DOMAIN account.contracts |-> account.contracts[k].address]

AccountAddressInfos(account, stored) ==
  [k \in DOMAIN account.addresses |->
     BasicAddressInfo(account.addresses[k], stored)]
    \o [k \in DOMAIN account.contracts |->
          ContractAddressInfo(account.contracts[k])]

\* lines 39-47
AccountInfoOf(account) ==
  [id |-> account.accountId,
   type |-> account.type,
   label |-> account.label,
   fileExported |-> account.fileExported,
   wordsExported |-> account.wordsExported,
   addresses |-> AccountAddresses(account)]

\* the stores' setters: the list given replaces the stored one, the address
\* infos kept by address, a later entry of an address over an earlier one
setAccountInfos(infos) == infos

setAddressInfos(infos) ==
  [a \in { infos[i].address : i \in DOMAIN infos } |->
     LET last == CHOOSE i \in DOMAIN infos :
                   /\ infos[i].address = a
                   /\ \A j \in DOMAIN infos : infos[j].address = a => j <= i
     IN infos[last]]

\* lines 7-52
processAndStoreAccounts(accounts) ==
  /\ accountInfos' = setAccountInfos(
        [i \in DOMAIN accounts |-> AccountInfoOf(accounts[i])])
  /\ addressInfos' = setAddressInfos(
        Flattened([i \in DOMAIN accounts |->
                     AccountAddressInfos(accounts[i], addressInfos)]))

HubIdle == [pc |-> "idle", settled |-> "none", listed |-> << >>,
            outcome |-> "none", migrate |-> FALSE]

\* line 57: syncFromHub() is called and awaits hubApi.list()
syncFromHub ==
  /\ hub.pc = "idle"
  /\ hub' = [HubIdle EXCEPT !.pc = "list", !.migrate = hub.migrate]
  /\ UNCHANGED <<accountInfos, addressInfos, swapLimitsState>>

\* lines 57 and 72: the list arrives and is stored
ListResolved(accounts) ==
  /\ hub.pc = "list"
  /\ processAndStoreAccounts(accounts)
  /\ hub' = [hub EXCEPT !.pc = "idle", !.settled = "ok", !.listed = accounts,
                        !.outcome = "returned"]
  /\ UNCHANGED swapLimitsState

\* as ListRejected, the return of line 62 missing: a required migration is
\* started and the empty list stored
ListRejectedFallingThrough(error) ==
  /\ hub.pc = "list"
  /\ IF error \in {"MIGRATION_REQUIRED", "ACCOUNTS_LOST"}
       THEN /\ processAndStoreAccounts(<< >>)
            /\ hub' = [hub EXCEPT !.pc = "idle", !.settled = error,
                                  !.outcome = "returned",
                                  !.migrate = (@ \/ error = "MIGRATION_REQUIRED")]
       ELSE /\ UNCHANGED <<accountInfos, addressInfos>>
            /\ hub' = [hub EXCEPT !.pc = "idle", !.settled = error,
                                  !.outcome = "thrown"]
  /\ UNCHANGED swapLimitsState

\* lines 58-72: hubApi.list() rejects
ListRejected(error) ==
  /\ hub.pc = "list"
  /\ CASE error = "MIGRATION_REQUIRED" ->
            /\ UNCHANGED <<accountInfos, addressInfos>>
            /\ hub' = [hub EXCEPT !.pc = "idle", !.settled = error,
                                  !.outcome = "returned", !.migrate = TRUE]
       [] error = "ACCOUNTS_LOST" ->
            /\ processAndStoreAccounts(<< >>)
            /\ hub' = [hub EXCEPT !.pc = "idle", !.settled = error,
                                  !.outcome = "returned"]
       [] OTHER ->
            /\ UNCHANGED <<accountInfos, addressInfos>>
            /\ hub' = [hub EXCEPT !.pc = "idle", !.settled = error,
                                  !.outcome = "thrown"]
  /\ UNCHANGED swapLimitsState

\* line 79: onboard() is called and awaits hubApi.onboard()
onboard ==
  /\ hub.pc = "idle"
  /\ hub' = [HubIdle EXCEPT !.pc = "onboard", !.migrate = hub.migrate]
  /\ UNCHANGED <<accountInfos, addressInfos, swapLimitsState>>

\* lines 79 and 85
OnboardResolved(accounts) ==
  /\ hub.pc = "onboard"
  /\ processAndStoreAccounts(accounts)
  /\ hub' = [hub EXCEPT !.pc = "idle", !.settled = "ok", !.listed = accounts,
                        !.outcome = "returned"]
  /\ UNCHANGED swapLimitsState

\* lines 80-83: every rejection is thrown on
OnboardRejected(error) ==
  /\ hub.pc = "onboard"
  /\ hub' = [hub EXCEPT !.pc = "idle", !.settled = error, !.outcome = "thrown"]
  /\ UNCHANGED <<accountInfos, addressInfos, swapLimitsState>>

---------------------------------------------------------------------------
(* Specifications *)

\* before any synchronisation: both stores empty, no call under way
HubUntouched ==
  /\ accountInfos = << >>
  /\ addressInfos = NoInfos
  /\ hub = HubIdle

StoresWithin(n) ==
  { st \in (SUBSET NimUniverse) \X (SUBSET BtcUniverse) :
      Cardinality(st[1]) + Cardinality(st[2]) <= n }

Tx(universe, h) == CHOOSE tx \in universe : tx.transactionHash = h

\* the stores the concurrent specification starts from: empty, and one
\* recent EUR-sourced swap
LiveStores ==
  { <<{}, {}>>,
    <<{Tx(NimUniverse, "n1")}, {}>> }

LiveRates == { [nim |-> 3, btc |-> 3000000], [nim |-> 4, btc |-> 4000000] }

\* After module evaluation: the refs hold their initial values and the
\* watcher's first run is suspended in calculateFiatAmounts.
Init ==
  /\ uid \in Uids \cup {Undef}
  /\ activeCurrency = "nim"
  /\ activeAddress = "NQ1"
  /\ exchangeRates = [nim |-> 3, btc |-> 3000000]
  /\ \E st \in LiveStores :
       transactions = st[1] /\ btcTransactions = st[2]
  /\ server \in Servers
  /\ limits = Undefined
  /\ nimAddress = Undef
  /\ btcAddress = Undef
  /\ isFiatToCrypto = FALSE
  /\ trigger = 0
  /\ started = 1
  /\ passes = [i \in PassIds |->
       IF i = 1
         THEN [Blank EXCEPT !.pc = "fiat", !.uid = uid,
                            !.nimFetch = NimPlaceholder,
                            !.btcFetch = BtcBurnAddress]
         ELSE Blank]
  /\ pub = NoPub
  /\ HubUntouched

Next ==
  \/ \E n \in NimAddresses \cup {Undef}, b \in BtcAddresses \cup {Undef},
        f \in BOOLEAN : useSwapLimits(n, b, f)
  \/ recalculate
  \/ \E c \in {"nim", "btc"}, a \in NimAddresses : ActiveChanged(c, a)
  \/ \E r \in LiveRates : ExchangeRatesChanged(r)
  \/ \E u \in Uids \cup {Undef} : AccountChanged(u)
  \/ \E i \in PassIds : FiatAmountsDone(i)
  \/ \E i \in PassIds : QuotasResolved(i)
  \/ \E i \in PassIds : FetchFails(i)

Spec == Init /\ [][Next]_vars

\* The refs as a call of useSwapLimits(options) leaves them, the run it starts
\* suspended in calculateFiatAmounts; the stores and the rate table are drawn
\* from the given sets.
InitOptions(storeSet, rateSet) ==
  /\ uid \in Uids \cup {Undef}
  /\ activeCurrency = "nim"
  /\ activeAddress = "NQ1"
  /\ exchangeRates \in rateSet
  /\ \E st \in storeSet :
       transactions = st[1] /\ btcTransactions = st[2]
  /\ server \in Servers
  /\ limits = Undefined
  /\ nimAddress \in NimAddresses \cup {Undef}
  /\ btcAddress \in BtcAddresses \cup {Undef}
  /\ isFiatToCrypto \in BOOLEAN
  /\ trigger = 1
  /\ started = 1
  /\ passes = [i \in PassIds |->
       IF i = 1
         THEN [Blank EXCEPT
                 !.pc = "fiat", !.uid = uid,
                 !.nimFetch = IF nimAddress # Undef THEN nimAddress
                                                   ELSE NimPlaceholder,
                 !.btcFetch = IF btcAddress # Undef THEN btcAddress
                                                   ELSE BtcBurnAddress]
         ELSE Blank]
  /\ pub = NoPub
  /\ HubUntouched

\* One run of the watcher over freely drawn inputs, nothing else changing
\* while it runs.
InitPass == InitOptions(StoresWithin(MaxTxs), RateTables)

NextPass ==
  \/ \E i \in PassIds : FiatAmountsDone(i)
  \/ \E i \in PassIds : QuotasResolved(i)
  \/ \E i \in PassIds : FetchFails(i)

SpecPass == InitPass /\ [][NextPass]_vars

\* recalculate() called again and again, no input changing in between
InitRecalc == InitOptions(LiveStores, LiveRates)

NextRecalc ==
  \/ recalculate
  \/ \E i \in PassIds : FiatAmountsDone(i)
  \/ \E i \in PassIds : QuotasResolved(i)
  \/ \E i \in PassIds : FetchFails(i)

SpecRecalc == InitRecalc /\ [][NextRecalc]_vars

\* The active currency and address changing, from a state in which the
\* earlier runs have ended without a snapshot: the options as
\* useSwapLimits(options) left them, the NIM currency selected.
InitActive ==
  /\ uid \in Uids \cup {Undef}
  /\ activeCurrency = "nim"
  /\ activeAddress = "NQ1"
  /\ exchangeRates \in LiveRates
  /\ \E st \in LiveStores :
       transactions = st[1] /\ btcTransactions = st[2]
  /\ server \in Servers
  /\ limits = Undefined
  /\ nimAddress \in NimAddresses \cup {Undef}
  /\ btcAddress \in BtcAddresses \cup {Undef}
  /\ isFiatToCrypto \in BOOLEAN
  /\ trigger = 1
  /\ started = 0
  /\ passes = [i \in PassIds |-> Blank]
  /\ pub = NoPub
  /\ HubUntouched

NextActive ==
  \/ \E c \in {"nim", "btc"}, a \in NimAddresses : ActiveChanged(c, a)
  \/ \E i \in PassIds : FiatAmountsDone(i)
  \/ \E i \in PassIds : QuotasResolved(i)
  \/ \E i \in PassIds : FetchFails(i)

SpecActive == InitActive /\ [][NextActive]_vars

\* The hub synchronisation alone.  The stores start as an earlier
\* synchronisation and the balance updates since have left them.
Balances == {NullBalance, Fin(7)}

StoredFrom(accounts, balanceOf) ==
  setAddressInfos(
    Flattened([i \in DOMAIN accounts |->
      AccountAddressInfos(accounts[i],
        [a \in DOMAIN balanceOf |-> [balance |-> balanceOf[a]]])]))

InitHub ==
  /\ uid = Undef
  /\ activeCurrency = "nim"
  /\ activeAddress = "NQ1"
  /\ exchangeRates = [nim |-> 3, btc |-> 3000000]
  /\ transactions = {}
  /\ btcTransactions = {}
  /\ server = CHOOSE sv \in Servers : sv.user = QLow
  /\ limits = Undefined
  /\ nimAddress = Undef
  /\ btcAddress = Undef
  /\ isFiatToCrypto = FALSE
  /\ trigger = 0
  /\ started = 0
  /\ passes = [i \in PassIds |-> Blank]
  /\ pub = NoPub
  /\ \E accounts \in HubLists, balanceOf \in [{"NQ1", "NQ2", "NQ3"} -> Balances] :
       /\ accountInfos = setAccountInfos(
            [i \in DOMAIN accounts |-> AccountInfoOf(accounts[i])])
       /\ addressInfos = StoredFrom(accounts, balanceOf)
  /\ hub = HubIdle

NextHub ==
  \/ syncFromHub
  \/ \E accounts \in HubLists : ListResolved(accounts)
  \/ \E error \in HubErrors : ListRejected(error)
  \/ onboard
  \/ \E accounts \in HubLists : OnboardResolved(accounts)
  \/ \E error \in HubErrors : OnboardRejected(error)

SpecHub == InitHub /\ [][NextHub]_vars

---------------------------------------------------------------------------
(* Properties *)

InFlight(i) == passes[i].pc \in {"fiat", "quota"}
Published == limits # Undefined

SetMin(S) == CHOOSE x \in S : \A y \in S : x <= y
Max0(n) == IF n < 0 THEN 0 ELSE n

Figures(l) ==
  { l.current.usd, l.current.luna, l.current.sat, l.current.eur,
    l.monthly.usd, l.monthly.luna, l.monthly.sat,
    l.remaining.usd, l.remaining.luna, l.remaining.sat }

\* C1: every figure of a published snapshot is >= 0, for all non-negative
\* quota responses, histories and exchange rates.
C1_FiguresNonNegative == Published => \A x \in Figures(limits) : GE0(x)

\* the quotas the publishing run fetched
PubUser == server.user
PubNim == server.nim[pub.pass.nimFetch]
PubBtc == server.btc[pub.pass.btcFetch]
PubHasUser == pub.pass.uid # Undef
PubNimGiven == pub.pass.nimFetch # NimPlaceholder
PubBtcGiven == pub.pass.btcFetch # BtcBurnAddress

\* the terms of the minimum: field is "current" or "monthlyRemaining"
Terms(field, withUser, withNim, withBtc) ==
  {PubNim.monthly - pub.pass.swappedAmount}
  \cup (IF withUser THEN {PubUser[field]} ELSE {})
  \cup (IF withNim THEN {PubNim[field]} ELSE {})
  \cup (IF withBtc THEN {PubBtc[field]} ELSE {})

\* C2: current.usd is max(0, min(account quota current if there is an account
\* quota, NIM reference monthly limit minus swapped volume, the NIM address
\* quota's current if a NIM address was given, the BTC address quota's current
\* if a BTC address was given)), remaining.usd the same over monthlyRemaining,
\* monthly.usd the account quota's monthly limit if present, else the NIM
\* reference monthly limit; quota {5000, 20000, 15000} on both with swapped
\* volume 0 gives 50.00, 200.00 and 150.00.
C2_LimitFormula ==
  Published =>
    /\ limits.current.usd =
         Fin(Max0(SetMin(Terms("current", PubHasUser, PubNimGiven, PubBtcGiven))))
    /\ limits.remaining.usd =
         Fin(Max0(SetMin(Terms("monthlyRemaining", PubHasUser, PubNimGiven,
                               PubBtcGiven))))
    /\ limits.monthly.usd =
         Fin(IF PubHasUser THEN PubUser.monthly ELSE PubNim.monthly)
    /\ (PubHasUser /\ PubUser = QA /\ PubNim = QA /\ pub.pass.swappedAmount = 0
          => /\ limits.current.usd = Fin(5000)
             /\ limits.monthly.usd = Fin(20000)
             /\ limits.remaining.usd = Fin(15000))

\* the same formula for the runs that read, when they publish, address refs
\* set as they were when the run started
C2_LimitFormulaSteadyRefs ==
  (/\ Published
   /\ PubNimGiven = (pub.nimAddress # Undef)
   /\ PubBtcGiven = (pub.btcAddress # Undef)) => C2_LimitFormula

\* in scope of the swapped volume: on the account and not before the cut-off
InWindow(tx) == tx.timestamp = 0 \/ tx.timestamp >= cutOffTimestamp
NimInScope == { tx \in transactions :
                  /\ InWindow(tx)
                  /\ {tx.sender, tx.recipient} \cap accountAddresses # {} }
BtcInScope == { tx \in btcTransactions :
                  /\ InWindow(tx)
                  /\ tx.addresses \cap activeAddresses # {} }
SwapOf(tx) == swapByTransaction[tx.transactionHash]
Computed(i) == passes[i].pc = "quota"

\* C3: a swap seen through an in-scope NIM transaction and an in-scope BTC
\* transaction is counted once: the NIM transaction is accounted, the BTC
\* transaction is not, and with nothing else in the stores the swapped volume
\* is the NIM transaction's fiat value alone.
C3_SwapCountedOnce ==
  \A i \in PassIds : Computed(i) =>
    \A n \in NimInScope, b \in BtcInScope :
      (SwapOf(n) # Undef /\ SwapOf(n) = SwapOf(b)) =>
        /\ n.transactionHash \in passes[i].swapNimTxs
        /\ b.transactionHash \notin passes[i].swapBtcTxs
        /\ (transactions = {n} /\ btcTransactions = {b} /\ n.timestamp # 0
              => passes[i].swappedAmount = n.fiatValue)

C3_Witness ==
  \E i \in PassIds :
    /\ Computed(i)
    /\ \E n \in NimInScope, b \in BtcInScope :
         SwapOf(n) # Undef /\ SwapOf(n) = SwapOf(b)
    /\ passes[i].swappedAmount > 0

\* the EUR-sourced swaps in scope of the new-user window, one per transaction
EurNim == { tx \in transactions :
              /\ tx.recipient \in accountAddresses
              /\ SwapOf(tx) # Undef
              /\ swapIn[SwapOf(tx)].asset = "EUR" }
EurBtc == { tx \in btcTransactions :
              /\ \E i \in DOMAIN tx.outputs : tx.outputs[i].address \in activeAddresses
              /\ SwapOf(tx) # Undef
              /\ swapIn[SwapOf(tx)].asset = "EUR" }
EurHashes == { tx.transactionHash : tx \in EurNim \cup EurBtc }
EurTimestamps == { tx.timestamp : tx \in EurNim } \cup { tx.timestamp : tx \in EurBtc }
EurSum == SumOver([h \in EurHashes |-> swapIn[swapByTransaction[h]].amount], EurHashes)
EurKnown == EurTimestamps \ {0}
EarliestIsOld == EurKnown # {} /\ SetMin(EurKnown) < threeDaysAgo

C5_OldSwapLiftsAllowance ==
  (Published /\ isFiatToCrypto /\ \E ts \in EurKnown : ts < threeDaysAgo) =>
    limits.current.eur = Infinity

C5_Witness ==
  /\ Published /\ isFiatToCrypto
  /\ \E ts \in EurKnown : ts < threeDaysAgo
  /\ 0 \in EurTimestamps
  /\ limits.current.eur = Infinity

\* C6: the figures fetched for the placeholder or burn address never clamp
\* current.usd or remaining.usd: without an address, that ledger's term of
\* both minimums is unlimited.
C6_PlaceholderNeverClamps ==
  Published =>
    /\ ~PubNimGiven =>
         /\ limits.current.usd = Fin(Max0(SetMin(
               Terms("current", PubHasUser, FALSE, pub.btcAddress # Undef))))
         /\ limits.remaining.usd = Fin(Max0(SetMin(
               Terms("monthlyRemaining", PubHasUser, FALSE, pub.btcAddress # Undef))))
    /\ ~PubBtcGiven =>
         /\ limits.current.usd = Fin(Max0(SetMin(
               Terms("current", PubHasUser, pub.nimAddress # Undef, FALSE))))
         /\ limits.remaining.usd = Fin(Max0(SetMin(
               Terms("monthlyRemaining", PubHasUser, pub.nimAddress # Undef, FALSE))))

\* C7: a snapshot is computed from the inputs as of the start of its run: the
\* address whose quota was fetched is the address that decides whether the
\* quota's term is applied.
C7_SelfContainedPass ==
  Published =>
    /\ pub.pass.nimFetch = (IF pub.nimAddress # Undef THEN pub.nimAddress
                                                      ELSE NimPlaceholder)
    /\ pub.pass.btcFetch = (IF pub.btcAddress # Undef THEN pub.btcAddress
                                                      ELSE BtcBurnAddress)

\* C8: a step that starts a run leaves the runs in flight as they are; a run
\* leaves flight only by its own step; limits changes only when a run
\* publishes, and then to that run's snapshot: the last to publish wins.
C8_NoAbortLastWins ==
  [][ /\ \A i \in PassIds :
          (InFlight(i) /\ started' # started) => passes'[i] = passes[i]
      /\ \A i \in PassIds :
          (InFlight(i) /\ ~InFlight(i)') =>
             \/ passes'[i].pc = "failed" /\ UNCHANGED <<limits, pub, inputs>>
             \/ passes'[i].pc = "published" /\ pub'.id = i
                  /\ pub'.pass = passes[i] /\ limits' = SwapLimits(passes[i])
      /\ (limits' # limits \/ pub' # pub) =>
           \E i \in PassIds : InFlight(i) /\ passes'[i].pc = "published"
    ]_vars

\* two runs overlapped and both published, the older one last
C8_Witness ==
  /\ passes[1].pc = "published" /\ passes[2].pc = "published"
  /\ pub.id = 1

\* what a run over the inputs as they are now publishes
FreshLimits ==
  SwapLimits([Blank EXCEPT
    !.uid = uid,
    !.nimFetch = IF nimAddress # Undef THEN nimAddress ELSE NimPlaceholder,
    !.btcFetch = IF btcAddress # Undef THEN btcAddress ELSE BtcBurnAddress,
    !.newUserLimitEur = newUserLimitEur,
    !.swappedAmount = swappedAmount])

\* C9: once no run is in flight, limits is the snapshot of the run triggered
\* last, if that run published: a stale snapshot does not stay.
C9_StaleIsTransient ==
  (/\ Published
   /\ \A i \in PassIds : ~InFlight(i)
   /\ passes[started].pc = "published") =>
     (pub.id = started \/ limits = FreshLimits)

\* C10: remaining.usd <= monthly.usd when one reference quota accounts for
\* both: there is no account quota, or its monthlyRemaining does not exceed
\* its monthly limit.
C10_RemainingWithinMonthly ==
  (Published /\ (PubHasUser => PubUser.monthlyRemaining <= PubUser.monthly)) =>
    /\ limits.remaining.usd.kind = "fin"
    /\ limits.monthly.usd.kind = "fin"
    /\ limits.remaining.usd.val <= limits.monthly.usd.val

C10_Witness ==
  /\ Published /\ PubHasUser
  /\ pub.pass.swappedAmount > 0
  /\ limits.remaining.usd.val > 0
  /\ limits.remaining.usd.val < limits.monthly.usd.val

\* the publishing run had no uid and read no address, at its start or when
\* it published
NothingSupplied ==
  /\ Published
  /\ ~PubHasUser /\ ~PubNimGiven /\ ~PubBtcGiven
  /\ pub.nimAddress = Undef /\ pub.btcAddress = Undef

\* C11 as stated: without a uid and without addresses, current.usd is
\* monthly.usd minus the swapped volume, whatever the swapped volume.
C11_CurrentIsMonthlyMinusSwapped ==
  NothingSupplied =>
    limits.current.usd = Fin(limits.monthly.usd.val - pub.pass.swappedAmount)

\* C11: without a uid and without addresses, current.usd is monthly.usd minus
\* the swapped volume, floored at 0 when the swapped volume exceeds the
\* monthly limit.
C11_CurrentIsMonthlyMinusSwappedFloored ==
  NothingSupplied =>
    /\ limits.monthly.usd = Fin(PubNim.monthly)
    /\ limits.current.usd =
         Fin(Max0(limits.monthly.usd.val - pub.pass.swappedAmount))

C11_Witness ==
  /\ NothingSupplied
  /\ pub.pass.swappedAmount > limits.monthly.usd.val
  /\ limits.current.usd = Fin(0)

\* the same case below the monthly limit
C11_WitnessBelow ==
  /\ NothingSupplied
  /\ pub.pass.swappedAmount > 0
  /\ limits.current.usd.val > 0

RatesChange == exchangeRates' # exchangeRates
ActiveChange == activeCurrency' # activeCurrency \/ activeAddress' # activeAddress
RunStarts == started' = started + 1

\* the run started by this step is a full one over the inputs as they are
\* left, the runs in flight untouched
FullRunStarts ==
  /\ RunStarts
  /\ passes' = [passes EXCEPT ![started + 1] =
        [Blank EXCEPT
           !.pc = "fiat",
           !.uid = uid',
           !.nimFetch = IF nimAddress' # Undef THEN nimAddress' ELSE NimPlaceholder,
           !.btcFetch = IF btcAddress' # Undef THEN btcAddress' ELSE BtcBurnAddress]]

C13_WitnessRates ==
  /\ trigger = 1 /\ nimAddress = Undef /\ btcAddress = Undef
  /\ exchangeRates # [nim |-> 3, btc |-> 3000000]
  /\ pub.id = 1 /\ InFlight(2) /\ passes[2].uid = pub.pass.uid

\* C14: when a quota fetch of a run fails, the run ends without publishing:
\* limits keeps the value it had, undefined or the previous snapshot, and
\* nothing else the run could write changes.
C14_FailedFetchPublishesNothing ==
  [][ \A i \in PassIds :
        (passes[i].pc = "quota" /\ passes'[i].pc = "failed") =>
           /\ limits' = limits
           /\ pub' = pub
           /\ \A j \in PassIds \ {i} : passes'[j] = passes[j]
    ]_vars

\* a run failed after another one had published: the snapshot is still there
C14_Witness ==
  /\ passes[2].pc = "failed"
  /\ pub.id = 1 /\ Published
  /\ limits = SwapLimits(pub.pass)

\* a run failed before any snapshot: limits is still undefined
C14_WitnessUndefined ==
  /\ passes[1].pc = "failed" /\ ~Published /\ ~InFlight(2)

\* the BTC transactions a run accounts: in scope, part of a swap that no
\* accounted NIM transaction belongs to
NimAccounted == { tx \in NimInScope : SwapOf(tx) # Undef }
BtcAccounted ==
  { tx \in BtcInScope :
      /\ SwapOf(tx) # Undef
      /\ \A n \in NimAccounted : SwapOf(n) # SwapOf(tx) }

HtlcOutputs(tx) ==
  { k \in DOMAIN tx.outputs : tx.outputs[k].addressLength = HTLC_ADDRESS_LENGTH }
NoOutputToTake(tx) == Len(tx.outputs) # 1 /\ HtlcOutputs(tx) = {}

\* the output the claim names
OutputToTake(tx) ==
  IF Len(tx.outputs) = 1 THEN tx.outputs[1]
  ELSE tx.outputs[SetMin(HtlcOutputs(tx))]

\* C15: a run over an accounted BTC swap transaction with several (or no)
\* outputs and none of HTLC address length fails in the fiat computation and
\* publishes nothing, the transaction confirmed or pending; a single output
\* is used whatever its address, otherwise the first one of HTLC address
\* length: its stored fiat value if confirmed, rate times its value if
\* pending.
C15_BtcOutputSelection ==
  /\ (\E tx \in BtcAccounted : NoOutputToTake(tx)) =>
        /\ passes[1].pc \in {"fiat", "failed"}
        /\ ~Published
  /\ \A tx \in BtcAccounted :
        (Computed(1) /\ transactions = {} /\ btcTransactions = {tx}) =>
           /\ ~NoOutputToTake(tx)
           /\ passes[1].swappedAmount =
                (IF tx.timestamp # 0
                   THEN OutputToTake(tx).fiatValue
                   ELSE (exchangeRates.btc * (OutputToTake(tx).value \div 100000))
                          \div 1000)

\* a run failed on a confirmed transaction without an output to take
C15_Witness ==
  /\ passes[1].pc = "failed"
  /\ \E tx \in BtcAccounted : NoOutputToTake(tx) /\ tx.timestamp # 0

\* the same on a pending transaction
C15_WitnessPending ==
  /\ passes[1].pc = "failed"
  /\ btcTransactions # {}
  /\ \A tx \in btcTransactions :
       tx \in BtcAccounted /\ NoOutputToTake(tx) /\ tx.timestamp = 0

\* the HTLC output of a pending transaction, second in order, was valued
C15_WitnessHtlc ==
  /\ Computed(1)
  /\ \E tx \in BtcAccounted :
       /\ btcTransactions = {tx} /\ transactions = {}
       /\ Len(tx.outputs) > 1 /\ SetMin(HtlcOutputs(tx)) > 1
       /\ passes[1].swappedAmount > 0

\* what the claim has a transaction contribute
NimContribution(tx) ==
  IF tx.timestamp # 0 THEN tx.fiatValue
  ELSE exchangeRates.nim * (tx.value \div LunaPerNim)
BtcContribution(tx) ==
  IF tx.timestamp # 0 THEN OutputToTake(tx).fiatValue
  ELSE (exchangeRates.btc * (OutputToTake(tx).value \div 100000)) \div 1000

ConfirmedSince(S, ts) == { tx \in S : tx.timestamp # 0 /\ tx.timestamp >= ts }
Pending(S) == { tx \in S : tx.timestamp = 0 }

\* C16: the swapped volume is the sum over the accounted swap transactions
\* confirmed at or after now - 30 days - 3 hours and the pending ones: the
\* stored USD fiat value (0 if none) of a confirmed one, the live USD rate
\* times the native amount of a pending one; a transaction before the
\* cut-off adds nothing.
C16_SwappedVolume ==
  Computed(1) =>
    /\ NimAccounted = ConfirmedSince(NimAccounted, cutOffTimestamp)
                        \cup Pending(NimAccounted)
    /\ passes[1].swapNimTxs = { tx.transactionHash : tx \in NimAccounted }
    /\ passes[1].swapBtcTxs = { tx.transactionHash : tx \in BtcAccounted }
    /\ passes[1].swappedAmount =
         SumOver([tx \in NimAccounted |-> NimContribution(tx)], NimAccounted)
         + SumOver([tx \in BtcAccounted |-> BtcContribution(tx)], BtcAccounted)
    /\ \A tx \in transactions :
         (tx.timestamp # 0 /\ tx.timestamp < cutOffTimestamp) =>
            tx.transactionHash \notin passes[1].swapNimTxs
    /\ \A tx \in transactions : transactions = {tx} /\ btcTransactions = {} =>
         passes[1].swappedAmount =
           (CASE tx.transactionHash = "n3" -> 3000
              [] tx.transactionHash = "n1" -> 4500
              [] tx.transactionHash = "n2" -> exchangeRates.nim * 1000
              [] OTHER -> IF tx.transactionHash = "n8" THEN 25000 ELSE 0)

\* a transaction confirmed on the cut-off and a pending one were both counted
C16_Witness ==
  /\ Computed(1)
  /\ \E tx \in NimAccounted : tx.timestamp = cutOffTimestamp
  /\ Pending(NimAccounted) # {}
  /\ passes[1].swappedAmount > 3000

\* a transaction just before the cut-off, alone in the store, added nothing
C16_WitnessOld ==
  /\ Computed(1)
  /\ \E tx \in transactions :
       /\ transactions = {tx} /\ tx.timestamp = cutOffTimestamp - 1
       /\ SwapOf(tx) # Undef
  /\ passes[1].swappedAmount = 0

\* a change of the active currency to another than NIM clears nimAddress,
\* set through useSwapLimits(options) or not
C17_CurrencyChangeClears ==
  [][ (activeCurrency' # activeCurrency /\ activeCurrency' # "nim") =>
         nimAddress' = Undef ]_vars

\* C17: under SpecActive a run fetches the placeholder's quota exactly if it
\* started after the currency changed away from NIM and before a NIM address
\* was set again; what such a run publishes reflects the account quota and
\* the BTC address quota only: no figure of the NIM quota it fetched besides
\* the reference monthly limit enters current.usd or remaining.usd.
C17_ClearedPassIgnoresNim ==
  (Published /\ ~PubNimGiven) =>
    /\ limits.current.usd = Fin(Max0(SetMin(
          Terms("current", PubHasUser, FALSE, PubBtcGiven))))
    /\ limits.remaining.usd = Fin(Max0(SetMin(
          Terms("monthlyRemaining", PubHasUser, FALSE, PubBtcGiven))))

\* the address set through the options was cleared and the run started then
\* has published
C17_ClearedPassPublished ==
  /\ activeCurrency = "btc" /\ nimAddress = Undef
  /\ Published /\ ~PubNimGiven /\ pub.nimAddress = Undef

\* the same for the runs that publish while nimAddress is still cleared
C17_ClearedPassIgnoresNimWhileCleared ==
  (Published /\ pub.nimAddress = Undef) => C17_ClearedPassIgnoresNim

\* the EUR-sourced swaps in scope of the new-user window, one per swap hash
EurSwaps == { SwapOf(tx) : tx \in EurNim \cup EurBtc }
EurSumPerSwap == SumOver([s \in EurSwaps |-> swapIn[s].amount], EurSwaps)

\* C18: in the new-user window a swap takes its EUR amount off the ceiling of
\* 100 at most once, however many in-scope transactions the swap index links
\* to it: current.eur is at least max(0, 100 - the amounts of the distinct
\* swaps).
C18_EurSwapCountedOnce ==
  (Published /\ isFiatToCrypto /\ ~EarliestIsOld) =>
    /\ limits.current.eur.kind = "fin"
    /\ limits.current.eur.val >= Max0(NewUserCeiling - EurSumPerSwap)

\* the transactions a run accounted on one ledger, by swap hash
AccountedFor(hashes, s) == { h \in hashes : swapByTransaction[h] = s }

\* C19: on either ledger, a run accounts at most one transaction per swap
\* hash, so a swap linked to several in-window transactions of the ledger
\* enters the swapped volume once.
C19_SwapHashCountedOncePerLedger ==
  \A i \in PassIds : Computed(i) =>
    \A s \in DOMAIN swapIn :
      /\ Cardinality(AccountedFor(passes[i].swapNimTxs, s)) <= 1
      /\ Cardinality(AccountedFor(passes[i].swapBtcTxs, s)) <= 1

\* the addresses the stored accounts list, and consistency of the two stores
StoredAccountAddresses ==
  UNION { { accountInfos[i].addresses[k] : k \in DOMAIN accountInfos[i].addresses }
            : i \in DOMAIN accountInfos }
StoresConsistent == StoredAccountAddresses \subseteq DOMAIN addressInfos

ListedIds(accounts) == [i \in DOMAIN accounts |-> accounts[i].accountId]
ListedAddresses(accounts) ==
  UNION { { accounts[i].addresses[k].address : k \in DOMAIN accounts[i].addresses }
          \cup { accounts[i].contracts[k].address : k \in DOMAIN accounts[i].contracts }
            : i \in DOMAIN accounts }

SyncSettles == hub.pc = "list" /\ hub'.pc = "idle"

C20_WitnessLost ==
  /\ hub.settled = "ACCOUNTS_LOST"
  /\ accountInfos = << >> /\ DOMAIN addressInfos = {}

\* a listing replaced the stores, a stored balance kept
C20_WitnessListed ==
  /\ hub.settled = "ok" /\ hub.outcome = "returned"
  /\ Len(accountInfos) = 2 /\ StoresConsistent
  /\ addressInfos["NQ1"].balance = Fin(7)
  /\ addressInfos["NQC"].balance = NullBalance

=============================================================================
